---- MODULE Spec2Model ----
(***************************************************************************)
(* BookAlchemy: the Flask handlers add_author, add_book, home and          *)
(* delete_book of app.py over the author and book tables of                *)
(* data_models.py (SQLite through SQLAlchemy).                             *)
(*                                                                         *)
(* Text is a sequence of one-character strings.  "Eacute" / "eacute"       *)
(* stand for the characters U+00C9 / U+00E9 (a non-ASCII letter pair) and  *)
(* "sup2" for U+00B2 (SUPERSCRIPT TWO, a str.isdigit() character that      *)
(* int() rejects).                                                         *)
(***************************************************************************)
EXTENDS Integers, Sequences, FiniteSets, TLC

\* ------------------------------------------------------------------ bounds
MaxAuthors == 2
MaxBooks == 2
MaxRequests == 2

\* ------------------------------------------------------------- characters
\* Python's None, and an optional value: <<>> or <<value>>
None == <<>>

Some(x) == <<x>>

Value(opt) == opt[1]

AsciiDigits == {"0", "1", "2", "3", "4", "5", "6", "7", "8", "9"}

DigitVal(c) ==
  CASE c = "0" -> 0 [] c = "1" -> 1 [] c = "2" -> 2 [] c = "3" -> 3
    [] c = "4" -> 4 [] c = "5" -> 5 [] c = "6" -> 6 [] c = "7" -> 7
    [] c = "8" -> 8 [] c = "9" -> 9

\* str.isdigit() of one character
IsDigitChar(c) == c \in AsciiDigits \cup {"sup2"}

\* str.isspace() of one character, as str.strip() uses it
IsSpaceChar(c) == c = " "

\* SQLite lower(): folds the ASCII letters only
SqlLowerChar(c) ==
  CASE c = "H" -> "h" [] c = "I" -> "i" [] OTHER -> c

\* Python str.lower(): folds every cased letter
PyLowerChar(c) ==
  CASE c = "H" -> "h" [] c = "I" -> "i" [] c = "Eacute" -> "eacute"
    [] OTHER -> c

SqlLower(s) == [i \in 1..Len(s) |-> SqlLowerChar(s[i])]

PyLower(s) == [i \in 1..Len(s) |-> PyLowerChar(s[i])]

RECURSIVE LStrip(_)
LStrip(s) ==
  IF s # <<>> /\ IsSpaceChar(Head(s)) THEN LStrip(Tail(s)) ELSE s

RECURSIVE RStrip(_)
RStrip(s) ==
  IF s # <<>> /\ IsSpaceChar(s[Len(s)])
  THEN RStrip(SubSeq(s, 1, Len(s) - 1)) ELSE s

\* str.strip()
Strip(s) == RStrip(LStrip(s))

\* int(text) for a text of ASCII decimal digits
RECURSIVE DecimalValue(_)
DecimalValue(s) ==
  IF s = <<>> THEN 0
  ELSE 10 * DecimalValue(SubSeq(s, 1, Len(s) - 1)) + DigitVal(s[Len(s)])

AllAsciiDigits(s) == \A i \in 1..Len(s) : s[i] \in AsciiDigits

\* int(text): Some(value), or None where int() raises ValueError
ParseInt(s) ==
  IF s # <<>> /\ AllAsciiDigits(s) THEN Some(DecimalValue(s)) ELSE None

\* str.isdigit()
IsDigitStr(s) == s # <<>> /\ \A i \in 1..Len(s) : IsDigitChar(s[i])

\* ------------------------------------------------------------------ dates
\* date.today() as observed by the handlers
Today == <<2026, 11, 5>>

IsLeap(y) == (y % 4 = 0 /\ y % 100 # 0) \/ y % 400 = 0

DaysInMonth(y, m) ==
  IF m = 2 THEN (IF IsLeap(y) THEN 29 ELSE 28)
  ELSE IF m \in {4, 6, 9, 11} THEN 30 ELSE 31

\* positions of the "-" separators of a text
DashPositions(s) == {i \in 1..Len(s) : s[i] = "-"}

\* datetime.strptime(text, "%Y-%m-%d").date(): Some(<<y, m, d>>), or None
\* where strptime raises ValueError.  %Y takes exactly four digits, %m and
\* %d one or two digits (1..12 and 1..31); date() then rejects year 0 and a
\* day past the end of the month.
Strptime(s) ==
  LET dashes == DashPositions(s) IN
  IF Cardinality(dashes) # 2 THEN None
  ELSE
    LET p1 == CHOOSE i \in dashes : \A j \in dashes : i <= j
        p2 == CHOOSE i \in dashes : \A j \in dashes : j <= i
        ys == SubSeq(s, 1, p1 - 1)
        ms == SubSeq(s, p1 + 1, p2 - 1)
        ds == SubSeq(s, p2 + 1, Len(s))
    IN
    IF ~(AllAsciiDigits(ys) /\ AllAsciiDigits(ms) /\ AllAsciiDigits(ds))
      THEN None
    ELSE IF Len(ys) # 4 \/ Len(ms) \notin {1, 2} \/ Len(ds) \notin {1, 2}
      THEN None
    ELSE
      LET y == DecimalValue(ys)
          m == DecimalValue(ms)
          d == DecimalValue(ds)
      IN
      IF m \notin 1..12 \/ d \notin 1..31 THEN None
      ELSE IF y < 1 \/ d > DaysInMonth(y, m) THEN None
      ELSE Some(<<y, m, d>>)

\* date.__lt__
DateLess(a, b) ==
  \/ a[1] < b[1]
  \/ a[1] = b[1] /\ a[2] < b[2]
  \/ a[1] = b[1] /\ a[2] = b[2] /\ a[3] < b[3]

\* ------------------------------------------------------------------ state
VARIABLES
  authors,    \* table author: set of rows [id, name, birth_date, date_of_death]
  books,      \* table book: set of rows [id, isbn, title, publication_year, author_id]
  response,   \* what the last finished request rendered
  request,    \* the form last submitted (form-validation runs only)
  inflight    \* per request slot, the handler's position and locals (concurrent runs only)

vars == <<authors, books, response, request, inflight>>

\* a rendered response: the handler, the outcome, the collected messages, the
\* text the message quotes, and for home the q, books and no_results it passes
Resp(op, kind, errors, detail) ==
  [op |-> op, kind |-> kind, errors |-> errors, detail |-> detail,
   q |-> <<>>, books |-> {}, no_results |-> FALSE]

Has(errors, e) == \E i \in 1..Len(errors) : errors[i] = e

Max(S) == CHOOSE x \in S : \A y \in S : y <= x

\* INTEGER PRIMARY KEY without AUTOINCREMENT: SQLite assigns max(rowid) + 1
NextId(rows) == IF rows = {} THEN 1 ELSE Max({r.id : r \in rows}) + 1

\* Query.get(id): Some(row), or None
GetRow(rows, id) ==
  IF \E r \in rows : r.id = id THEN Some(CHOOSE r \in rows : r.id = id) ELSE None

\* --------------------------------------------------------------- add_author
\* mutant: the checks stop at the first message
AddAuthorFieldErrorsFirstOnly(name, birth_date_str, date_of_death_str) ==
  IF name = <<>> THEN <<"MissingField">>
  ELSE IF birth_date_str # <<>> /\ Strptime(birth_date_str) = None
    THEN <<"InvalidFormat:birth_date">>
  ELSE IF date_of_death_str # <<>> /\ Strptime(date_of_death_str) = None
    THEN <<"InvalidFormat:date_of_death">>
  ELSE IF birth_date_str # <<>> /\ DateLess(Today, Value(Strptime(birth_date_str)))
    THEN <<"FutureDate:birth_date">>
  ELSE IF date_of_death_str # <<>> /\ DateLess(Today, Value(Strptime(date_of_death_str)))
    THEN <<"FutureDate:date_of_death">>
  ELSE IF /\ birth_date_str # <<>>
          /\ date_of_death_str # <<>>
          /\ DateLess(Value(Strptime(date_of_death_str)), Value(Strptime(birth_date_str)))
    THEN <<"DateOrder">>
  ELSE <<>>

\* the checks of lines 27-51, in the order the handler appends their messages
AddAuthorFieldErrors(name, birth_date_str, date_of_death_str) ==
  LET birth_dt == IF birth_date_str # <<>> THEN Strptime(birth_date_str) ELSE None
      death_dt == IF date_of_death_str # <<>> THEN Strptime(date_of_death_str) ELSE None
  IN
     (IF name = <<>> THEN <<"MissingField">> ELSE <<>>)
  \o (IF birth_date_str # <<>> /\ birth_dt = None
        THEN <<"InvalidFormat:birth_date">> ELSE <<>>)
  \o (IF date_of_death_str # <<>> /\ death_dt = None
        THEN <<"InvalidFormat:date_of_death">> ELSE <<>>)
  \o (IF birth_dt # None /\ DateLess(Today, Value(birth_dt))
        THEN <<"FutureDate:birth_date">> ELSE <<>>)
  \o (IF death_dt # None /\ DateLess(Today, Value(death_dt))
        THEN <<"FutureDate:date_of_death">> ELSE <<>>)
  \o (IF birth_dt # None /\ death_dt # None /\ DateLess(Value(death_dt), Value(birth_dt))
        THEN <<"DateOrder">> ELSE <<>>)

\* Author.query.filter(func.lower(Author.name) == name.lower()).first()
ExistingAuthor(rows, name) ==
  \E a \in rows : SqlLower(a.name) = PyLower(name)

\* lines 27-57: every message the handler collects
AddAuthorErrors(rows, name, birth_date_str, date_of_death_str) ==
  LET errors == AddAuthorFieldErrors(name, birth_date_str, date_of_death_str) IN
  IF name # <<>> /\ errors = <<>> /\ ExistingAuthor(rows, name)
  THEN errors \o <<"DuplicateAuthor">> ELSE errors

\* the row lines 63-67 build
NewAuthor(rows, name, birth_date_str, date_of_death_str) ==
  [id |-> NextId(rows), name |-> name,
   birth_date |-> IF birth_date_str # <<>> THEN Strptime(birth_date_str) ELSE None,
   date_of_death |-> IF date_of_death_str # <<>> THEN Strptime(date_of_death_str) ELSE None]

\* author.name is UNIQUE (binary collation): the INSERT is rejected iff a row
\* with exactly this name is stored
AuthorNameTaken(rows, name) == \E a \in rows : a.name = name

\* lines 59-73 on the current table: <<table after, response>>
AddAuthorWrite(rows, errors, name, birth_date_str, date_of_death_str) ==
  IF errors # <<>>
  THEN <<rows, Resp("add_author", "errors", errors, None)>>
  ELSE IF AuthorNameTaken(rows, name)
  THEN <<rows, Resp("add_author", "failed", <<>>, <<"UNIQUE constraint failed: author.name">>)>>
  ELSE <<rows \cup {NewAuthor(rows, name, birth_date_str, date_of_death_str)},
         Resp("add_author", "added", <<>>, name)>>

\* POST /add_author, the whole handler
AddAuthorResult(rows, form) ==
  LET name == Strip(form.name)
      b == Strip(form.birth_date)
      d == Strip(form.date_of_death)
  IN AddAuthorWrite(rows, AddAuthorErrors(rows, name, b, d), name, b, d)

AddAuthor(form) ==
  \E res \in {AddAuthorResult(authors, form)} :
  /\ Cardinality(res[1]) <= MaxAuthors
  /\ authors' = res[1]
  /\ response' = res[2]
  /\ UNCHANGED books

\* ----------------------------------------------------------------- add_book
CurrentYear == Today[1]

\* lines 94-101: the author the selector resolves to, and the message if none
AuthorLookup(rows, author_id) ==
  IF author_id = <<>> THEN [obj |-> None, errors |-> <<>>]
  ELSE IF ParseInt(author_id) = None
    THEN [obj |-> None, errors |-> <<"UnknownAuthor:invalid">>]
  ELSE LET found == GetRow(rows, Value(ParseInt(author_id))) IN
    [obj |-> found,
     errors |-> IF found = None THEN <<"UnknownAuthor:not_found">> ELSE <<>>]

\* is_valid_isbn, lines 104-106
RECURSIVE DigitCount(_)
DigitCount(raw) ==
  IF raw = <<>> THEN 0
  ELSE (IF IsDigitChar(Head(raw)) THEN 1 ELSE 0) + DigitCount(Tail(raw))

is_valid_isbn(raw) == DigitCount(raw) \in {10, 13}

\* line 115 raises ValueError outside any try: isdigit() accepts a character
\* that int() rejects
YearRaises(publication_year) ==
  IsDigitStr(publication_year) /\ ParseInt(publication_year) = None

\* lines 112-120: year_value
YearValue(publication_year) ==
  IF IsDigitStr(publication_year) THEN ParseInt(publication_year) ELSE None

YearErrors(publication_year) ==
  IF publication_year = <<>> THEN <<>>
  ELSE IF IsDigitStr(publication_year)
    THEN (IF Value(YearValue(publication_year)) < 1450
             \/ Value(YearValue(publication_year)) > CurrentYear
          THEN <<"YearOutOfRange">> ELSE <<>>)
  ELSE <<"NotANumber">>

\* lines 89-120: the messages collected before the duplicate-title query
AddBookFieldErrors(title, isbn, publication_year, author_id, lookup) ==
     (IF title = <<>> \/ isbn = <<>> \/ author_id = <<>>
        THEN <<"MissingField">> ELSE <<>>)
  \o lookup.errors
  \o (IF isbn # <<>> /\ ~is_valid_isbn(isbn) THEN <<"InvalidISBN">> ELSE <<>>)
  \o YearErrors(publication_year)

\* lines 123-131: the duplicate-title query and its message
DuplicateTitle(rows, author_obj, title) ==
  /\ title # <<>>
  /\ author_obj # None
  /\ \E b \in rows : /\ b.author_id = Some(Value(author_obj).id)
                     /\ SqlLower(b.title) = PyLower(title)

DuplicateTitleErrors(rows, author_obj, title) ==
  IF DuplicateTitle(rows, author_obj, title) THEN <<"DuplicateTitle">> ELSE <<>>

\* Book.validate_publication_year: TRUE where it raises ValueError
ValidatePublicationYearRaises(value) ==
  value # None /\ (Value(value) < 0 \/ Value(value) > 3000)

\* Book.validate_isbn: TRUE where it raises ValueError
ValidateIsbnRaises(value) == Strip(value) = <<>>

\* the row lines 137-142 build
NewBook(rows, title, isbn, year_value, author_obj, author_id) ==
  [id |-> NextId(rows), isbn |-> Strip(isbn), title |-> title,
   publication_year |-> year_value,
   author_id |-> IF author_obj # None THEN Some(Value(author_obj).id)
                 ELSE ParseInt(author_id)]

\* mutant: the column is not UNIQUE
IsbnTakenNever(rows, isbn) == FALSE

\* book.isbn is UNIQUE: the INSERT is rejected iff a row with this isbn is stored
IsbnTaken(rows, isbn) == \E b \in rows : b.isbn = isbn

\* mutant: the INSERT runs whatever the messages
AddBookWriteDespiteErrors(rows, errors, title, isbn, year_value, author_obj, author_id) ==
  <<rows \cup {NewBook(rows, title, isbn, year_value, author_obj, author_id)},
    IF errors # <<>> THEN Resp("add_book", "errors", errors, None)
    ELSE Resp("add_book", "added", <<>>, title)>>

\* lines 133-148 on the current table: <<table after, response>>
AddBookWrite(rows, errors, title, isbn, year_value, author_obj, author_id) ==
  IF errors # <<>>
  THEN <<rows, Resp("add_book", "errors", errors, None)>>
  ELSE IF ValidatePublicationYearRaises(year_value)
  THEN <<rows, Resp("add_book", "failed", <<>>, <<"publication_year">>)>>
  ELSE IF ValidateIsbnRaises(isbn)
  THEN <<rows, Resp("add_book", "failed", <<>>, <<"isbn is required">>)>>
  ELSE IF IsbnTaken(rows, Strip(isbn))
  THEN <<rows, Resp("add_book", "failed", <<>>, <<"UNIQUE constraint failed: book.isbn">>)>>
  ELSE <<rows \cup {NewBook(rows, title, isbn, year_value, author_obj, author_id)},
         Resp("add_book", "added", <<>>, title)>>

\* POST /add_book, the whole handler: <<book table after, response>>
AddBookResult(authorRows, bookRows, form) ==
  LET title == Strip(form.title)
      isbn == Strip(form.isbn)
      publication_year == Strip(form.publication_year)
      author_id == Strip(form.author_id)
      lookup == AuthorLookup(authorRows, author_id)
  IN
  IF YearRaises(publication_year)
  THEN <<bookRows, Resp("add_book", "error500", <<>>, None)>>
  ELSE AddBookWrite(bookRows,
         AddBookFieldErrors(title, isbn, publication_year, author_id, lookup)
           \o DuplicateTitleErrors(bookRows, lookup.obj, title),
         title, isbn, YearValue(publication_year), lookup.obj, author_id)

AddBook(form) ==
  \E res \in {AddBookResult(authors, books, form)} :
  /\ Cardinality(res[1]) <= MaxBooks
  /\ books' = res[1]
  /\ response' = res[2]
  /\ UNCHANGED authors

\* --------------------------------------------------------------------- home
\* SQL LIKE: % matches any run of characters, _ any one character
RECURSIVE Like(_, _)
Like(text, pattern) ==
  IF pattern = <<>> THEN text = <<>>
  ELSE IF Head(pattern) = "%"
    THEN Like(text, Tail(pattern)) \/ (text # <<>> /\ Like(Tail(text), pattern))
  ELSE IF text = <<>> THEN FALSE
  ELSE IF Head(pattern) = "_" THEN Like(Tail(text), Tail(pattern))
  ELSE Head(text) = Head(pattern) /\ Like(Tail(text), Tail(pattern))

\* Book.title.ilike(pattern): lower(title) LIKE lower(pattern)
ILike(text, pattern) == Like(SqlLower(text), SqlLower(pattern))

\* lines 156-162
HomeResult(bookRows, q) ==
  LET search_query == Strip(q)
      found == IF search_query # <<>>
               THEN {b \in bookRows : ILike(b.title, <<"%">> \o search_query \o <<"%">>)}
               ELSE bookRows
  IN [op |-> "home", kind |-> "list", errors |-> <<>>, detail |-> None,
      q |-> search_query, books |-> found,
      no_results |-> (search_query # <<>> /\ found = {})]

Home(q) ==
  /\ response' = HomeResult(books, q)
  /\ UNCHANGED <<authors, books>>

\* -------------------------------------------------------------- delete_book
\* book.author: the row book.author_id references, or None
BookAuthor(authorRows, book) ==
  IF book.author_id = None THEN None ELSE GetRow(authorRows, Value(book.author_id))

\* mutant: the remaining books are not filtered by author
AuthorBooksOfAnyone(bookRows, author) == bookRows

\* author.books
AuthorBooks(bookRows, author) == {b \in bookRows : b.author_id = Some(author.id)}

\* POST /book/<book_id>/delete, the whole handler:
\* <<author table after, book table after, response>>
DeleteBookResult(authorRows, bookRows, book_id) ==
  LET found == GetRow(bookRows, book_id) IN
  IF found = None
  THEN <<authorRows, bookRows, Resp("delete_book", "not_found", <<>>, None)>>
  ELSE
    LET book == Value(found)
        author == BookAuthor(authorRows, book)
        remaining == bookRows \ {book}
    IN
    IF author # None /\ AuthorBooks(remaining, Value(author)) = {}
    THEN <<authorRows \ {Value(author)}, remaining,
           Resp("delete_book", "deleted_book_and_author", <<>>, book.title)>>
    ELSE <<authorRows, remaining,
           Resp("delete_book", "deleted_book", <<>>, book.title)>>

DeleteBook(book_id) ==
  \E res \in {DeleteBookResult(authors, books, book_id)} :
  /\ authors' = res[1]
  /\ books' = res[2]
  /\ response' = res[3]

\* ------------------------------------------------------------------- inputs
\* names and titles: "HI", " hi " and "I", and the non-ASCII pair
NameHI == <<"H", "I">>
NameHiPadded == <<" ", "h", "i", " ">>
NameI == <<"I">>
NameEacute == <<"Eacute">>
NameEacuteLower == <<"eacute">>

\* date texts
DateToday == <<"2", "0", "2", "6", "-", "1", "1", "-", "0", "5">>
DateTomorrow == <<"2", "0", "2", "6", "-", "1", "1", "-", "0", "6">>
DatePast == <<"1", "9", "9", "0", "-", "5", "-", "1", "7">>
DateNoSuchDay == <<"2", "0", "2", "1", "-", "0", "2", "-", "2", "9">>
DateGarbled == <<"1", "7", " ", "5">>

\* ISBN texts: ten digits, thirteen digits with hyphens, five digits
Isbn10 == <<"0", "1", "2", "3", "4", "5", "6", "7", "8", "9">>
Isbn13 == <<"9", "7", "8", "-", "0", "-", "1", "3", "-", "4", "6", "8", "5", "9", "9", "-", "1">>
Isbn13b == <<"9", "7", "8", "0", "1", "3", "4", "6", "8", "5", "9", "9", "1">>
Isbn5 == <<"1", "2", "3", "4", "5">>

Year1899 == <<"1", "8", "9", "9">>
Year1300 == <<"1", "3", "0", "0">>
Year2027 == <<"2", "0", "2", "7">>
YearAbcd == <<"H", "I">>
YearSup2 == <<"sup2">>

AuthorForm(name, birth_date, date_of_death) ==
  [name |-> name, birth_date |-> birth_date, date_of_death |-> date_of_death]

BookForm(title, isbn, publication_year, author_id) ==
  [title |-> title, isbn |-> isbn, publication_year |-> publication_year,
   author_id |-> author_id]

\* -------------------------------------------- requests handled one at a time
\* add_author forms: the names, without dates
AuthorForms ==
  {AuthorForm(n, <<>>, <<>>) : n \in {<<>>, NameHI, NameHiPadded, NameI}}

Titles == {NameEacute, NameEacuteLower}

ValidIsbns == {Isbn10, Isbn13, Isbn13b}

AuthorIds == {<<"1">>, <<"2">>}

\* add_book forms: the well-formed ones, a malformed ISBN, a year that int()
\* cannot read and an unknown author
BookForms ==
  {BookForm(t, i, Year1899, a) : t \in Titles, i \in ValidIsbns, a \in AuthorIds}
  \cup {BookForm(NameEacute, Isbn5, Year1899, <<"1">>),
        BookForm(NameEacute, Isbn10, YearSup2, <<"1">>),
        BookForm(NameEacute, Isbn10, Year1899, <<"9">>)}

BookIds == 1..MaxBooks

Idle == [pc |-> "idle"]

Slots == 1..MaxRequests

Init ==
  /\ authors = {}
  /\ books = {}
  /\ response = Resp("none", "none", <<>>, None)
  /\ request = None
  /\ inflight = [r \in Slots |-> Idle]

Next ==
  \/ \E form \in AuthorForms : AddAuthor(form) /\ UNCHANGED <<request, inflight>>
  \/ \E form \in BookForms : AddBook(form) /\ UNCHANGED <<request, inflight>>
  \/ \E book_id \in BookIds : DeleteBook(book_id) /\ UNCHANGED <<request, inflight>>

Spec == Init /\ [][Next]_vars

\* ------------------------------------------------------- form validation runs
\* every pairing of a birth date and a date of death that passes, and pairings
\* that break one rule or several
DatePairs ==
  {<<<<>>, <<>>>>, <<DatePast, DateToday>>, <<DateToday, DateToday>>,
   <<DateNoSuchDay, <<>>>>, <<<<>>, DateGarbled>>, <<DateGarbled, DateNoSuchDay>>,
   <<DateTomorrow, <<>>>>, <<<<>>, DateTomorrow>>, <<DateToday, DatePast>>,
   <<DateTomorrow, DatePast>>, <<DateNoSuchDay, DateTomorrow>>}

FormNames == {<<>>, <<" ">>, NameHI, NameHiPadded}

AuthorFormsV ==
  {AuthorForm(n, dd[1], dd[2]) : n \in FormNames, dd \in DatePairs}

BookFormsV ==
  {BookForm(NameHI, Isbn10, Year1899, <<"1">>),
   BookForm(NameHiPadded, Isbn13, <<>>, <<" ", "1">>),
   BookForm(NameHI, Isbn10, Year1300, <<"1">>),
   BookForm(NameHI, Isbn10, Year2027, <<"1">>),
   BookForm(NameHI, Isbn10, YearAbcd, <<"1">>),
   BookForm(NameHI, Isbn10, YearSup2, <<"1">>),
   BookForm(<<>>, Isbn10, Year1899, <<"1">>),
   BookForm(NameHI, <<" ">>, Year1899, <<"1">>),
   BookForm(NameHI, Isbn5, Year1899, <<"1">>),
   BookForm(NameHI, Isbn10, Year1899, <<>>),
   BookForm(NameHI, Isbn10, Year1899, <<"H">>),
   BookForm(NameHI, Isbn10, Year1899, <<"9">>),
   BookForm(<<>>, Isbn5, YearAbcd, <<"9">>)}

Logged(op, form) == Some([op |-> op, form |-> form])

NextForms ==
  \/ \E form \in AuthorFormsV :
       AddAuthor(form) /\ request' = Logged("add_author", form) /\ UNCHANGED inflight
  \/ \E form \in BookFormsV :
       AddBook(form) /\ request' = Logged("add_book", form) /\ UNCHANGED inflight

SpecForms == Init /\ [][NextForms]_vars

\* ------------------------------------------------------------- name runs
\* add_author forms over the ASCII and the non-ASCII names, with dates that
\* break no rule
NameDatePairs == {<<<<>>, <<>>>>, <<DatePast, DateToday>>}

AuthorFormsN ==
  {AuthorForm(n, dd[1], dd[2]) :
     n \in {NameHI, NameHiPadded, NameI, NameEacute, NameEacuteLower},
     dd \in NameDatePairs}

NextNames ==
  \E form \in AuthorFormsN :
    AddAuthor(form) /\ request' = Logged("add_author", form) /\ UNCHANGED inflight

SpecNames == Init /\ [][NextNames]_vars

\* ----------------------------------------------------------------- search runs
SearchTitles == {NameHI, NameHiPadded, NameEacute, <<"H", "_">>}

Queries ==
  {<<>>, <<" ">>, <<"h">>, <<"I", "H">>, <<" ", "H", "I">>, <<"_">>, <<"%">>,
   <<"eacute">>}

NextSearch ==
  \/ AddAuthor(AuthorForm(NameHI, <<>>, <<>>)) /\ UNCHANGED <<request, inflight>>
  \/ \E t \in SearchTitles, i \in ValidIsbns :
       AddBook(BookForm(t, i, Year1899, <<"1">>)) /\ UNCHANGED <<request, inflight>>
  \/ \E q \in Queries : Home(q) /\ UNCHANGED <<request, inflight>>

SpecSearch == Init /\ [][NextSearch]_vars

\* --------------------------------------------------------- interleaved requests
\* The development server handles each request on its own thread with its own
\* session, so the handlers interleave between their database statements.
Park(r, locals) == inflight' = [inflight EXCEPT ![r] = locals]

Finish(r, resp) ==
  /\ inflight' = [inflight EXCEPT ![r] = Idle]
  /\ response' = resp

\* add_author lines 23-57: the field checks and the duplicate lookup
AuthorCheck(r, form) ==
  /\ inflight[r].pc = "idle"
  /\ LET name == Strip(form.name)
         b == Strip(form.birth_date)
         d == Strip(form.date_of_death)
     IN Park(r, [pc |-> "add_author_write", name |-> name, birth_date_str |-> b,
                 date_of_death_str |-> d,
                 errors |-> AddAuthorErrors(authors, name, b, d)])
  /\ UNCHANGED <<authors, books, response, request>>

\* add_author lines 59-75: the message, or the INSERT and its commit
AuthorCommit(r) ==
  /\ inflight[r].pc = "add_author_write"
  /\ \E res \in {AddAuthorWrite(authors, inflight[r].errors, inflight[r].name,
                                inflight[r].birth_date_str,
                                inflight[r].date_of_death_str)} :
       /\ Cardinality(res[1]) <= MaxAuthors
       /\ authors' = res[1]
       /\ Finish(r, res[2])
  /\ UNCHANGED <<books, request>>

\* add_book lines 84-120: the field checks and the author lookup
BookResolve(r, form) ==
  /\ inflight[r].pc = "idle"
  /\ LET title == Strip(form.title)
         isbn == Strip(form.isbn)
         publication_year == Strip(form.publication_year)
         author_id == Strip(form.author_id)
         lookup == AuthorLookup(authors, author_id)
     IN
     IF YearRaises(publication_year)
     THEN Finish(r, Resp("add_book", "error500", <<>>, None))
     ELSE /\ Park(r, [pc |-> "add_book_duplicate", title |-> title, isbn |-> isbn,
                      year_value |-> YearValue(publication_year),
                      author_id |-> author_id, author_obj |-> lookup.obj,
                      errors |-> AddBookFieldErrors(title, isbn, publication_year,
                                                    author_id, lookup)])
          /\ UNCHANGED response
  /\ UNCHANGED <<authors, books, request>>

\* add_book lines 122-131: the duplicate-title query
BookDuplicateCheck(r) ==
  /\ inflight[r].pc = "add_book_duplicate"
  /\ Park(r, [inflight[r] EXCEPT
                !.pc = "add_book_write",
                !.errors = @ \o DuplicateTitleErrors(books, inflight[r].author_obj,
                                                     inflight[r].title)])
  /\ UNCHANGED <<authors, books, response, request>>

\* add_book lines 133-150: the message, or the INSERT and its commit
BookCommit(r) ==
  /\ inflight[r].pc = "add_book_write"
  /\ \E res \in {AddBookWrite(books, inflight[r].errors, inflight[r].title,
                              inflight[r].isbn, inflight[r].year_value,
                              inflight[r].author_obj, inflight[r].author_id)} :
       /\ Cardinality(res[1]) <= MaxBooks
       /\ books' = res[1]
       /\ Finish(r, res[2])
  /\ UNCHANGED <<authors, request>>

\* delete_book lines 169-172: load the book and its author, DELETE the book, commit
DeleteFirst(r, book_id) ==
  /\ inflight[r].pc = "idle"
  /\ LET found == GetRow(books, book_id) IN
     IF found = None
     THEN /\ Finish(r, Resp("delete_book", "not_found", <<>>, None))
          /\ UNCHANGED books
     ELSE /\ books' = books \ {Value(found)}
          /\ Park(r, [pc |-> "delete_check", book |-> Value(found),
                      author |-> BookAuthor(authors, Value(found))])
          /\ UNCHANGED response
  /\ UNCHANGED <<authors, request>>

\* delete_book line 175: the author and its books are read again after the commit;
\* reading an author whose row is gone raises, and the request ends in a 500
DeleteCheck(r) ==
  /\ inflight[r].pc = "delete_check"
  /\ LET author == inflight[r].author
         title == inflight[r].book.title
     IN
     IF author = None
     THEN Finish(r, Resp("delete_book", "deleted_book", <<>>, title))
     ELSE IF GetRow(authors, Value(author).id) = None
     THEN Finish(r, Resp("delete_book", "error500", <<>>, None))
     ELSE IF AuthorBooks(books, Value(author)) # {}
     THEN Finish(r, Resp("delete_book", "deleted_book", <<>>, title))
     ELSE Park(r, [inflight[r] EXCEPT !.pc = "delete_author"]) /\ UNCHANGED response
  /\ UNCHANGED <<authors, books, request>>

\* delete_book lines 176-183: DELETE the author row by its id, commit, flash; a
\* DELETE that matches no row only warns
DeleteAuthorCommit(r) ==
  /\ inflight[r].pc = "delete_author"
  /\ authors' = {a \in authors : a.id # Value(inflight[r].author).id}
  /\ Finish(r, Resp("delete_book", "deleted_book_and_author", <<>>,
                    inflight[r].book.title))
  /\ UNCHANGED <<books, request>>

AuthorFormsC == {AuthorForm(n, <<>>, <<>>) : n \in {NameHI, NameHiPadded}}

BookFormsC ==
  {BookForm(NameHI, i, Year1899, <<"1">>) : i \in {Isbn10, Isbn13}}

NextConc ==
  \E r \in Slots :
    \/ \E form \in AuthorFormsC : AuthorCheck(r, form)
    \/ AuthorCommit(r)
    \/ \E form \in BookFormsC : BookResolve(r, form)
    \/ BookDuplicateCheck(r)
    \/ BookCommit(r)
    \/ \E book_id \in BookIds : DeleteFirst(r, book_id)
    \/ DeleteCheck(r)
    \/ DeleteAuthorCommit(r)

SpecConc == Init /\ [][NextConc]_vars

\* ===================================================================== claims
\* equality of two texts under case-insensitive comparison
SameIgnoringCase(s, t) == PyLower(s) = PyLower(t)

\* q occurs in text as a substring, ignoring case
ContainsIgnoringCase(text, q) ==
  \E i \in 1..(Len(text) - Len(q) + 1) :
    SameIgnoringCase(SubSeq(text, i, i + Len(q) - 1), q)

BooksOf(bookRows, a) == {b \in bookRows : b.author_id = Some(a.id)}

\* C1: deleting an existing book b of author a removes b and nothing else from
\* the book table; if b was a's only book, a is removed too, a lookup of a by id
\* finds nothing and "book and author" is reported; otherwise a stays and "book
\* only" is reported; no other author is removed.
C1_DeleteCascade ==
  [][/\ \A b \in books :
          DeleteBookResult(authors, books, b.id)[2] = books \ {b}
     /\ (response'.op = "delete_book" /\ response'.kind # "not_found") =>
          \E b \in books :
            /\ books' = books \ {b}
            /\ \A a \in authors : Some(a.id) = b.author_id =>
                 IF BooksOf(books, a) = {b}
                 THEN /\ authors' = authors \ {a}
                      /\ GetRow(authors', a.id) = None
                      /\ response'.kind = "deleted_book_and_author"
                 ELSE /\ authors' = authors
                      /\ response'.kind = "deleted_book"]_vars

\* an only book was deleted with its author while another author and that
\* author's book stay stored
C1_Witness ==
  /\ response.kind = "deleted_book_and_author"
  /\ \E a \in authors : BooksOf(books, a) # {}

\* C2: a submission whose trimmed, lowercased name equals the lowercased name
\* of a stored author yields DuplicateAuthor whatever the other fields contain,
\* and no author is added.
C2_AlwaysDuplicateAuthor ==
  [][(/\ response'.op = "add_author"
      /\ request' # None
      /\ \E a \in authors :
           SameIgnoringCase(a.name, Strip(Value(request').form.name))) =>
       /\ Has(response'.errors, "DuplicateAuthor")
       /\ authors' = authors]_vars

\* C3: no two stored books of one author have titles equal under
\* case-insensitive comparison.
C3_NoDuplicateTitles ==
  \A b1 \in books, b2 \in books :
    (b1 # b2 /\ b1.author_id = b2.author_id) => ~SameIgnoringCase(b1.title, b2.title)

C5_SearchIsSubstringMatch ==
  response.op = "home" =>
    /\ response.q # <<>> =>
         response.books = {b \in books : ContainsIgnoringCase(b.title, response.q)}
    /\ response.q = <<>> => response.books = books
    /\ response.no_results = (response.q # <<>> /\ response.books = {})

\* C6: while a delete_book request is between its statements, the store never
\* holds the state in which the book is gone and its author, left without
\* books by that delete, is still stored.
C6_CascadeIsAtomic ==
  \A r \in Slots :
    (inflight[r].pc \in {"delete_check", "delete_author"} /\ inflight[r].author # None) =>
      ~(/\ Value(inflight[r].author) \in authors
        /\ BooksOf(books, Value(inflight[r].author)) = {})

\* C7: no two stored authors have names equal under case-insensitive comparison.
C7_NoDuplicateAuthorNames ==
  \A a1 \in authors, a2 \in authors :
    a1 # a2 => ~SameIgnoringCase(a1.name, a2.name)

\* C8: no two stored books have the same isbn; an add_book is answered with
\* its messages, a failure, a success or (a year int() cannot read) a server
\* error; a failure leaves both tables as they were, and a success stored one
\* book whose isbn was not stored before (so a form that breaks no rule but
\* carries a stored isbn is answered with a failure).
C8_IsbnUnique ==
  [][/\ \A b1 \in books', b2 \in books' : b1.isbn = b2.isbn => b1 = b2
     /\ response'.op = "add_book" =>
          /\ response'.kind \in {"errors", "failed", "added", "error500"}
          /\ (response'.kind = "errors") <=> (response'.errors # <<>>)
     /\ (response'.op = "add_book" /\ response'.kind = "failed") =>
          authors' = authors /\ books' = books
     /\ (response'.op = "add_book" /\ response'.kind = "added") =>
          \E n \in books' :
            /\ books' = books \cup {n}
            /\ \A b \in books : b.isbn # n.isbn]_vars

\* an add_book was refused at the write with a book stored
C8_Witness ==
  /\ response.op = "add_book"
  /\ response.kind = "failed"
  /\ books # {}

C10_ReferentialIntegrity ==
  \A b \in books : \E a \in authors : b.author_id = Some(a.id)

====
